---- MODULE Spec2Model ----
(***************************************************************************)
(* Model of the PowerTrader backtest data engine:                          *)
(*   backtest_feed.py      BacktestPriceReplay (per-symbol price replay)   *)
(*   pt_backtest.py        dataset discovery, 5-field parser, metrics,     *)
(*                         orchestrator main                               *)
(*   pt_offline_driver.py  launcher of the two child processes             *)
(*                                                                         *)
(* Floats are modelled by integers (0.0 is 0).  A raw record is the text   *)
(* the Loader returns for one candle: lit says whether ast.literal_eval    *)
(* accepts it, vals is the literal's sequence of fields, and a field is    *)
(* either a number (num = TRUE) or a value float() rejects.                *)
(***************************************************************************)
EXTENDS Integers, Sequences, FiniteSets, TLC

\* ------------------------------------------------------------- bounds
\* Longest Loader result for the first replay symbol.
MaxRows == 3
\* Longest raw row sequence given to the parsers on their own.
MaxParseRows == 5
\* Longest Loader result of one dataset in an orchestrator run.
MaxOrchRows == 2
\* Most interrupts delivered to the launcher.
MaxInterrupts == 1
\* Longest Loader result for the second replay symbol.
MaxRowsOther == 1
\* Most next_price calls made on one BacktestPriceReplay instance.
MaxCalls == 4

\* ------------------------------------------------------- raw records
Num(v) == [num |-> TRUE, v |-> v]
NotNum == [num |-> FALSE, v |-> 0]
Lit(vals) == [lit |-> TRUE, vals |-> vals]
\* Text ast.literal_eval raises on.
Garbage == [lit |-> FALSE, vals |-> <<>>]

\* [timestamp, open, close, high, low]
Candle(t, o, c, h, l) == Lit(<<Num(t), Num(o), Num(c), Num(h), Num(l)>>)

\* Raw rows the replay Loader may return: a later candle, an earlier
\* candle and an undecodable row.
ReplayRecords ==
    { Candle(2, 4, 5, 6, 3),
      Candle(1, 6, 7, 8, 5),
      Garbage }

RECURSIVE SeqsUpTo(_, _)
SeqsUpTo(S, n) ==
    IF n = 0 THEN { <<>> }
    ELSE LET shorter == SeqsUpTo(S, n - 1)
         IN  shorter \cup { Append(s, x) : s \in { q \in shorter : Len(q) = n - 1 }, x \in S }

\* ------------------------------------------- backtest_feed._parse_rows
\* float(vals[i]) for the 0-based index i: defined iff the literal was
\* accepted, has the field, and the field is numeric.
FloatOk(raw, i) == raw.lit /\ Len(raw.vals) >= i + 1 /\ raw.vals[i + 1].num
FloatAt(raw, i) == raw.vals[i + 1].v

\* One iteration of the loop body of _parse_rows: the pair (ts, close) is
\* appended, or the exception is swallowed and the row skipped.
ReplayDecode(raw) ==
    IF FloatOk(raw, 0) /\ FloatOk(raw, 2)
    THEN << <<FloatAt(raw, 0), FloatAt(raw, 2)>> >>
    ELSE <<>>

\* list.sort(key=lambda x: x[0]): stable, ascending on the first component.
RECURSIVE InsertByTs(_, _)
InsertByTs(sorted, x) ==
    IF sorted = <<>> THEN <<x>>
    ELSE IF sorted[Len(sorted)][1] <= x[1] THEN Append(sorted, x)
    ELSE Append(InsertByTs(SubSeq(sorted, 1, Len(sorted) - 1), x), sorted[Len(sorted)])

RECURSIVE SortByTsFrom(_, _)
SortByTsFrom(acc, rest) ==
    IF rest = <<>> THEN acc
    ELSE SortByTsFrom(InsertByTs(acc, Head(rest)), Tail(rest))

\* Mutant: the sort is left out (rows stay in Loader order).
SortByTs_NoSort(parsed) == parsed

SortByTs(parsed) == SortByTsFrom(<<>>, parsed)

RECURSIVE ReplayDecodeAll(_)
ReplayDecodeAll(rows) ==
    IF rows = <<>> THEN <<>>
    ELSE ReplayDecode(Head(rows)) \o ReplayDecodeAll(Tail(rows))

parse_rows(rows) == SortByTs(ReplayDecodeAll(rows))

\* ------------------------------------------------ symbol normalisation
\* A symbol is a sequence of characters.
Upper(c) ==
    CASE c = "b" -> "B"
      [] c = "e" -> "E"
      [] OTHER   -> c

RECURSIVE LStrip(_)
LStrip(s) == IF s # <<>> /\ Head(s) = " " THEN LStrip(Tail(s)) ELSE s

RECURSIVE RStrip(_)
RStrip(s) ==
    IF s # <<>> /\ s[Len(s)] = " " THEN RStrip(SubSeq(s, 1, Len(s) - 1)) ELSE s

\* Mutant: upper-cased but not trimmed.
Normalize_NoStrip(s) == [i \in 1..Len(s) |-> Upper(s[i])]

\* str(sym).upper().strip()
Normalize(s) == RStrip(LStrip([i \in 1..Len(s) |-> Upper(s[i])]))

\* The spellings next_price is called with.
Spellings == { <<"B">>, <<" ", "b">>, <<"E">>, <<"e", " ">> }

\* The symbol each spelling denotes (the reference the claims are stated
\* against: written out, not computed).
SymbolOf ==
    [s \in Spellings |-> IF s \in { <<"B">>, <<" ", "b">> } THEN <<"B">> ELSE <<"E">>]

Symbols == { SymbolOf[s] : s \in Spellings }

VARIABLES
    \* BacktestPriceReplay
    iters,        \* self._iters: symbol -> generator state
    last_price,   \* self._last_price: symbol -> price
    loader_log,   \* history: Loader argument -> results of the calls made with it
    ncalls,       \* history: symbol -> number of next_price calls so far
    first_spelling, \* history: symbol -> spelling of its first next_price call
    ret,          \* history: outcome of the latest next_price call
    \* the two parsers and _calc_metrics applied to one input
    p_rows,       \* the raw rows
    p_done,       \* which of the three functions have been applied
    p_hist,       \* result of _parse_history_rows(p_rows)
    p_replay,     \* result of _parse_rows(p_rows)
    p_metrics,    \* result of _calc_metrics(p_hist)
    \* pt_backtest.main
    disk,         \* the data directory: root, timeframe and coin entries
    o_args,       \* args.coin (empty: no filter) and args.per_coin_logs
    o_pc,         \* "start", "loop", "done"
    datasets,     \* the (timeframe, coin) pairs in iteration order
    o_idx,        \* position of the loop in datasets
    raw_rows,     \* raw_rows of the latest iteration
    parsed_rows,  \* parsed_rows of the latest iteration
    summary_rows, \* summary_rows
    artifacts,    \* (coin, timeframe) directories write_artifacts wrote
    report,       \* backtest_report.csv: written or not, and its rows
    coin_logs,    \* coins whose backtest_log.csv was written
    o_exit,       \* how main ended
    load_failed,  \* history: datasets on which the Loader raised
    \* pt_offline_driver.main
    l_args,       \* args.no_thinker, args.no_trader
    l_pc,         \* position of main
    child,        \* each child process: "unstarted", "running", "exited"
    procs,        \* procs
    wait_i,       \* position of the wait loop in procs
    term_i,       \* position of the terminate loop in procs
    terminated,   \* children p.terminate() was called on
    intr,         \* history: where the interrupts arrived, children started by then
    l_exit        \* how main ended

replayVars == <<iters, last_price, loader_log, ncalls, first_spelling, ret>>
pureVars == <<p_rows, p_done, p_hist, p_replay, p_metrics>>
orchVars == <<disk, o_args, o_pc, datasets, o_idx, raw_rows, parsed_rows, summary_rows,
              artifacts, report, coin_logs, o_exit, load_failed>>
launcherVars == <<l_args, l_pc, child, procs, wait_i, term_i, terminated, intr, l_exit>>
vars == <<replayVars, pureVars, orchVars, launcherVars>>

\* ---------------------------------------------------- BacktestPriceReplay
\* What pt_trainer.load_history may do: return rows, or raise.
LoaderResults(records, n) ==
    { [ok |-> TRUE, rows |-> r] : r \in SeqsUpTo(records, n) }
        \cup { [ok |-> FALSE, rows |-> <<>>] }

ReplayLoaderLong == LoaderResults(ReplayRecords, MaxRows)
ReplayLoaderShort == LoaderResults(ReplayRecords, MaxRowsOther)

\* The history on disk is longer for B than for E.
ReplayLoaderResults(sym) ==
    IF sym = <<"E">> THEN ReplayLoaderShort ELSE ReplayLoaderLong

Put(f, k, v) == [x \in DOMAIN f \cup {k} |-> IF x = k THEN v ELSE f[x]]

\* dict.get(k, default)
Get(f, k, default) == IF k \in DOMAIN f THEN f[k] ELSE default

\* closes = [c for _, c in parsed]; if not closes: closes = [0.0]
ClosesOf(rows) ==
    LET parsed == parse_rows(rows)
        closes == [i \in 1..Len(parsed) |-> parsed[i][2]]
    IN  IF closes = <<>> THEN <<0>> ELSE closes

\* A generator that has not run yet, one suspended at a yield after idx
\* prices of closes, and one that has returned or raised.
GenFinished == [phase |-> "finished", closes |-> <<>>, idx |-> 0]
GenAt(closes, idx) == [phase |-> "suspended", closes |-> closes, idx |-> idx]

\* Mutant: the stream ends with the data (no repeat-last-price loop).
GenNext_NoRepeat(gen, lp, sym) ==
    IF gen.phase = "finished" \/ gen.idx >= Len(gen.closes)
    THEN [gen |-> GenFinished, kind |-> "StopIteration", price |-> 0]
    ELSE [gen |-> GenAt(gen.closes, gen.idx + 1), kind |-> "price",
          price |-> gen.closes[gen.idx + 1]]

\* next() on the generator of _iter_for: StopIteration once it has
\* finished; else the next close, or once the closes are used up the
\* symbol's last price.
GenNext(gen, lp, sym) ==
    IF gen.phase = "finished"
    THEN [gen |-> gen, kind |-> "StopIteration", price |-> 0]
    ELSE IF gen.idx < Len(gen.closes)
    THEN [gen |-> GenAt(gen.closes, gen.idx + 1), kind |-> "price",
          price |-> gen.closes[gen.idx + 1]]
    ELSE [gen |-> gen, kind |-> "price", price |-> Get(lp, sym, 0)]

TotalCalls == ncalls[<<"B">>] + ncalls[<<"E">>]

\* next_price(spelling), first call for the symbol: the generator is
\* created and run up to its first yield, which calls the Loader.
NextPriceFirst(spelling) ==
    LET sym == Normalize(spelling) IN
    /\ TotalCalls < MaxCalls
    /\ sym \notin DOMAIN iters
    /\ ncalls' = [ncalls EXCEPT ![SymbolOf[spelling]] = @ + 1]
    /\ first_spelling' =
         [first_spelling EXCEPT ![SymbolOf[spelling]] = IF @ = <<>> THEN spelling ELSE @]
    /\ \E res \in ReplayLoaderResults(sym) :
         /\ loader_log' = Put(loader_log, sym, Append(Get(loader_log, sym, <<>>), res))
         /\ IF res.ok
            THEN LET y == GenNext(GenAt(ClosesOf(res.rows), 0), last_price, sym) IN
                 /\ iters' = Put(iters, sym, y.gen)
                 /\ last_price' =
                      IF y.kind = "price" THEN Put(last_price, sym, y.price) ELSE last_price
                 /\ ret' = [sym |-> spelling, kind |-> y.kind, price |-> y.price]
            ELSE /\ iters' = Put(iters, sym, GenFinished)
                 /\ last_price' = last_price
                 /\ ret' = [sym |-> spelling, kind |-> "LoaderError", price |-> 0]
    /\ UNCHANGED <<pureVars, orchVars, launcherVars>>

\* next_price(spelling) when the symbol has its generator already.
NextPriceAgain(spelling) ==
    LET sym == Normalize(spelling)
        y == GenNext(iters[sym], last_price, sym)
    IN
    /\ TotalCalls < MaxCalls
    /\ sym \in DOMAIN iters
    /\ ncalls' = [ncalls EXCEPT ![SymbolOf[spelling]] = @ + 1]
    /\ first_spelling' =
         [first_spelling EXCEPT ![SymbolOf[spelling]] = IF @ = <<>> THEN spelling ELSE @]
    /\ loader_log' = loader_log
    /\ iters' = Put(iters, sym, y.gen)
    /\ last_price' = IF y.kind = "price" THEN Put(last_price, sym, y.price) ELSE last_price
    /\ ret' = [sym |-> spelling, kind |-> y.kind, price |-> y.price]
    /\ UNCHANGED <<pureVars, orchVars, launcherVars>>

\* ------------------------------------- pt_backtest._parse_history_rows
\* Raw rows given to the parsers: three candles (a win, a loss, a flat one
\* that neither wins nor hits), a three-field row, a row whose close is
\* not a number, and an undecodable row.
ParseRecords ==
    { Candle(1, 10, 12, 13, 9),
      Candle(2, 10, 8, 11, 7),
      Candle(3, 5, 5, 5, 5),
      Lit(<<Num(4), Num(10), Num(12)>>),
      Lit(<<Num(4), Num(10), NotNum, Num(11), Num(9)>>),
      Garbage }

\* One iteration of the loop body: the 5-tuple is appended, or the
\* exception is swallowed and the row skipped.
HistoryDecode(raw) ==
    IF /\ FloatOk(raw, 0) /\ FloatOk(raw, 1) /\ FloatOk(raw, 2)
       /\ FloatOk(raw, 3) /\ FloatOk(raw, 4)
    THEN << <<FloatAt(raw, 0), FloatAt(raw, 1), FloatAt(raw, 2),
              FloatAt(raw, 3), FloatAt(raw, 4)>> >>
    ELSE <<>>

RECURSIVE HistoryDecodeAll(_)
HistoryDecodeAll(rows) ==
    IF rows = <<>> THEN <<>>
    ELSE HistoryDecode(Head(rows)) \o HistoryDecodeAll(Tail(rows))

\* Mutant: a row that fails to decode ends the parse (break for continue).
RECURSIVE HistoryDecodeUntilBad(_)
HistoryDecodeUntilBad(rows) ==
    IF rows = <<>> \/ HistoryDecode(Head(rows)) = <<>> THEN <<>>
    ELSE HistoryDecode(Head(rows)) \o HistoryDecodeUntilBad(Tail(rows))

parse_history_rows_Abort(rows) == HistoryDecodeUntilBad(rows)

parse_history_rows(rows) == HistoryDecodeAll(rows)

\* --------------------------------------------- pt_backtest._calc_metrics
Abs(x) == IF x < 0 THEN 0 - x ELSE x
Max(a, b) == IF a >= b THEN a ELSE b
\* The float quotient n / d, kept exact.
Div(n, d) == [n |-> n, d |-> d]
Zero == Div(0, 1)

\* The loop of _calc_metrics over rows[i..]: wins, hits and the sum of the
\* thresholds so far.
RECURSIVE MetricsLoop(_, _, _)
MetricsLoop(rows, i, acc) ==
    IF i > Len(rows) THEN acc
    ELSE LET open_price == rows[i][2]
             close_price == rows[i][3]
             high_price == rows[i][4]
             low_price == rows[i][5]
             intraday_move == Max(Abs(high_price - open_price), Abs(open_price - low_price))
         IN  MetricsLoop(rows, i + 1,
                 [wins |-> acc.wins + (IF close_price > open_price THEN 1 ELSE 0),
                  hits |-> acc.hits + (IF intraday_move > 0 THEN 1 ELSE 0),
                  thresholds |-> acc.thresholds + Abs(close_price - open_price)])

\* Mutant: a candle that closes at its open counts as a win.
RECURSIVE MetricsLoopGe(_, _, _)
MetricsLoopGe(rows, i, acc) ==
    IF i > Len(rows) THEN acc
    ELSE LET open_price == rows[i][2]
             close_price == rows[i][3]
             high_price == rows[i][4]
             low_price == rows[i][5]
             intraday_move == Max(Abs(high_price - open_price), Abs(open_price - low_price))
         IN  MetricsLoopGe(rows, i + 1,
                 [wins |-> acc.wins + (IF close_price >= open_price THEN 1 ELSE 0),
                  hits |-> acc.hits + (IF intraday_move > 0 THEN 1 ELSE 0),
                  thresholds |-> acc.thresholds + Abs(close_price - open_price)])

calc_metrics_Ge(rows) ==
    IF rows = <<>>
    THEN [samples |-> 0, win_rate |-> Zero, hit_rate |-> Zero, avg_threshold |-> Zero]
    ELSE LET acc == MetricsLoopGe(rows, 1, [wins |-> 0, hits |-> 0, thresholds |-> 0])
             total == Len(rows)
         IN  [samples |-> total,
              win_rate |-> Div(acc.wins, total),
              hit_rate |-> Div(acc.hits, total),
              avg_threshold |-> Div(acc.thresholds, total)]

calc_metrics(rows) ==
    IF rows = <<>>
    THEN [samples |-> 0, win_rate |-> Zero, hit_rate |-> Zero, avg_threshold |-> Zero]
    ELSE LET acc == MetricsLoop(rows, 1, [wins |-> 0, hits |-> 0, thresholds |-> 0])
             total == Len(rows)
         IN  [samples |-> total,
              win_rate |-> Div(acc.wins, total),
              hit_rate |-> Div(acc.hits, total),
              avg_threshold |-> Div(acc.thresholds, total)]

\* ------------------------------------ the pure functions, one input each
ParseHistory ==
    /\ "history" \notin p_done
    /\ p_hist' = parse_history_rows(p_rows)
    /\ p_done' = p_done \cup {"history"}
    /\ UNCHANGED <<p_rows, p_replay, p_metrics, replayVars, orchVars, launcherVars>>

ParseReplay ==
    /\ "replay" \notin p_done
    /\ p_replay' = parse_rows(p_rows)
    /\ p_done' = p_done \cup {"replay"}
    /\ UNCHANGED <<p_rows, p_hist, p_metrics, replayVars, orchVars, launcherVars>>

CalcMetrics ==
    /\ "history" \in p_done
    /\ "metrics" \notin p_done
    /\ p_metrics' = calc_metrics(p_hist)
    /\ p_done' = p_done \cup {"metrics"}
    /\ UNCHANGED <<p_rows, p_hist, p_replay, replayVars, orchVars, launcherVars>>

\* ------------------------------------------------------ pt_backtest.main
\* Entry names of the data directory, each in sorted() order.
TimeframeNames == <<"1day", "1hour">>
CoinNames == <<"BTC", "ETH">>
EntryKinds == {"absent", "file", "dir"}
\* The --coin filters tried: none, a coin on disk, a coin not on disk.
CoinFilters == { {}, {"BTC"}, {"SOL"} }

Range(seq) == { seq[i] : i \in 1..Len(seq) }

\* A data directory: missing, a plain file, or a directory whose
\* timeframe entries are files or directories of coin entries.
CoinEntries(top) ==
    { f \in [Range(TimeframeNames) -> [Range(CoinNames) -> EntryKinds]] :
        \A tf \in Range(TimeframeNames) :
            top[tf] # "dir" => \A x \in Range(CoinNames) : f[tf][x] = "absent" }

Disks ==
    { [root |-> "missing"], [root |-> "file"] }
        \cup UNION { { [root |-> "dir", top |-> t, coin |-> c] : c \in CoinEntries(t) } :
                       t \in [Range(TimeframeNames) -> EntryKinds] }

\* The inner loop of discover_datasets for one timeframe directory.
RECURSIVE CoinsUnder(_, _, _, _)
CoinsUnder(d, timeframe, allowed_coins, i) ==
    IF i > Len(CoinNames) THEN <<>>
    ELSE LET coin == CoinNames[i]
             rest == CoinsUnder(d, timeframe, allowed_coins, i + 1)
         IN  IF d.coin[timeframe][coin] = "absent" THEN rest
             ELSE IF allowed_coins # {} /\ coin \notin allowed_coins THEN rest
             ELSE IF d.coin[timeframe][coin] # "dir" THEN rest
             ELSE <<coin>> \o rest

\* discover_datasets on a root that is a directory: the timeframes that
\* got a coin, each with its coins.
RECURSIVE DiscoverFrom(_, _, _)
DiscoverFrom(d, allowed_coins, i) ==
    IF i > Len(TimeframeNames) THEN <<>>
    ELSE LET timeframe == TimeframeNames[i]
             rest == DiscoverFrom(d, allowed_coins, i + 1)
         IN  IF d.top[timeframe] # "dir" THEN rest
             ELSE LET coins == CoinsUnder(d, timeframe, allowed_coins, 1)
                  IN  IF coins = <<>> THEN rest
                      ELSE << [timeframe |-> timeframe, coins |-> coins] >> \o rest

discover_datasets(d, allowed_coins) == DiscoverFrom(d, allowed_coins, 1)

\* for timeframe, coins in datasets.items(): for coin in coins
RECURSIVE Pairs(_)
Pairs(found) ==
    IF found = <<>> THEN <<>>
    ELSE [i \in 1..Len(Head(found).coins) |->
            [timeframe |-> Head(found).timeframe, coin |-> Head(found).coins[i]]]
         \o Pairs(Tail(found))

OrchLoaderResults == LoaderResults(ReplayRecords, MaxOrchRows)

\* os.listdir(root) raises: the root is missing or is not a directory.
DiscoverRaises ==
    /\ o_pc = "start"
    /\ disk.root # "dir"
    /\ o_pc' = "done"
    /\ o_exit' = IF disk.root = "missing" THEN "FileNotFoundError" ELSE "NotADirectoryError"
    /\ UNCHANGED <<disk, o_args, datasets, o_idx, raw_rows, parsed_rows, summary_rows,
                   artifacts, report, coin_logs, load_failed>>
    /\ UNCHANGED <<replayVars, pureVars, launcherVars>>

\* if not datasets: raise SystemExit("No datasets found ...")
DiscoverNothing ==
    /\ o_pc = "start"
    /\ disk.root = "dir"
    /\ discover_datasets(disk, o_args.coin) = <<>>
    /\ o_pc' = "done"
    /\ o_exit' = "NoDatasetsFound"
    /\ UNCHANGED <<disk, o_args, datasets, o_idx, raw_rows, parsed_rows, summary_rows,
                   artifacts, report, coin_logs, load_failed>>
    /\ UNCHANGED <<replayVars, pureVars, launcherVars>>

DiscoverSome ==
    /\ o_pc = "start"
    /\ disk.root = "dir"
    /\ discover_datasets(disk, o_args.coin) # <<>>
    /\ datasets' = Pairs(discover_datasets(disk, o_args.coin))
    /\ o_pc' = "loop"
    /\ UNCHANGED <<disk, o_args, o_idx, raw_rows, parsed_rows, summary_rows,
                   artifacts, report, coin_logs, o_exit, load_failed>>
    /\ UNCHANGED <<replayVars, pureVars, launcherVars>>

\* One iteration of the loop of main whose load_history call raises: the
\* exception leaves main.
LoadRaises ==
    /\ o_pc = "loop"
    /\ o_idx <= Len(datasets)
    /\ \E res \in OrchLoaderResults :
         /\ ~res.ok
         /\ load_failed' = load_failed \cup {datasets[o_idx]}
         /\ o_pc' = "done"
         /\ o_exit' = "LoaderError"
    /\ UNCHANGED <<disk, o_args, datasets, o_idx, raw_rows, parsed_rows, summary_rows,
                   artifacts, report, coin_logs>>
    /\ UNCHANGED <<replayVars, pureVars, launcherVars>>

\* One iteration of the loop of main: load, parse, aggregate, append the
\* summary row, write the artifacts.
ProcessDataset ==
    /\ o_pc = "loop"
    /\ o_idx <= Len(datasets)
    /\ \E res \in OrchLoaderResults :
         /\ res.ok
         /\ raw_rows' = res.rows
         /\ parsed_rows' = parse_history_rows(res.rows)
         /\ summary_rows' =
              Append(summary_rows,
                     [coin |-> datasets[o_idx].coin,
                      timeframe |-> datasets[o_idx].timeframe,
                      metrics |-> calc_metrics(parse_history_rows(res.rows))])
    /\ artifacts' = artifacts \cup {datasets[o_idx]}
    /\ o_idx' = o_idx + 1
    /\ UNCHANGED <<disk, o_args, o_pc, datasets, report, coin_logs, o_exit, load_failed>>
    /\ UNCHANGED <<replayVars, pureVars, launcherVars>>

\* After the loop: write_summary, then the per-coin logs if asked for.
WriteSummary ==
    /\ o_pc = "loop"
    /\ o_idx > Len(datasets)
    /\ report' = [written |-> TRUE, rows |-> summary_rows]
    /\ coin_logs' =
         IF o_args.per_coin_logs
         THEN { summary_rows[i].coin : i \in 1..Len(summary_rows) }
         ELSE coin_logs
    /\ o_pc' = "done"
    /\ o_exit' = "ok"
    /\ UNCHANGED <<disk, o_args, datasets, o_idx, raw_rows, parsed_rows, summary_rows,
                   artifacts, load_failed>>
    /\ UNCHANGED <<replayVars, pureVars, launcherVars>>

\* ------------------------------------------------ pt_offline_driver.main
Children == {"thinker", "trader"}
\* The statements of main inside the try block.  Launching a child is two
\* steps, Popen starting the process and procs.append storing its handle.
TryPcs == {"launch_thinker", "append_thinker", "launch_trader", "append_trader", "wait"}
AfterLaunch(c) == IF c = "thinker" THEN "launch_trader" ELSE "wait"
Skipped(c) == IF c = "thinker" THEN l_args.no_thinker ELSE l_args.no_trader

\* if not args.no_<c>: is false.
SkipLaunch(c) ==
    /\ l_pc = "launch_" \o c
    /\ Skipped(c)
    /\ l_pc' = AfterLaunch(c)
    /\ UNCHANGED <<l_args, child, procs, wait_i, term_i, terminated, intr, l_exit>>
    /\ UNCHANGED <<replayVars, pureVars, orchVars>>

\* _launch_process: subprocess.Popen starts the child.
Spawn(c) ==
    /\ l_pc = "launch_" \o c
    /\ ~Skipped(c)
    /\ child' = [child EXCEPT ![c] = "running"]
    /\ l_pc' = "append_" \o c
    /\ UNCHANGED <<l_args, procs, wait_i, term_i, terminated, intr, l_exit>>
    /\ UNCHANGED <<replayVars, pureVars, orchVars>>

\* subprocess.Popen raises OSError: no child, the finally block runs and
\* the error leaves main.
SpawnFails(c) ==
    /\ l_pc = "launch_" \o c
    /\ ~Skipped(c)
    /\ l_pc' = "finally"
    /\ l_exit' = "OSError"
    /\ UNCHANGED <<l_args, child, procs, wait_i, term_i, terminated, intr>>
    /\ UNCHANGED <<replayVars, pureVars, orchVars>>

\* procs.append(<the Popen object>)
AppendProc(c) ==
    /\ l_pc = "append_" \o c
    /\ procs' = Append(procs, c)
    /\ l_pc' = AfterLaunch(c)
    /\ UNCHANGED <<l_args, child, wait_i, term_i, terminated, intr, l_exit>>
    /\ UNCHANGED <<replayVars, pureVars, orchVars>>

\* for p in procs: p.wait() returns once the child has exited.
WaitNext ==
    /\ l_pc = "wait"
    /\ wait_i <= Len(procs)
    /\ child[procs[wait_i]] = "exited"
    /\ wait_i' = wait_i + 1
    /\ UNCHANGED <<l_args, l_pc, child, procs, term_i, terminated, intr, l_exit>>
    /\ UNCHANGED <<replayVars, pureVars, orchVars>>

WaitDone ==
    /\ l_pc = "wait"
    /\ wait_i > Len(procs)
    /\ l_pc' = "finally"
    /\ UNCHANGED <<l_args, child, procs, wait_i, term_i, terminated, intr, l_exit>>
    /\ UNCHANGED <<replayVars, pureVars, orchVars>>

\* A child process ends, by itself or after a terminate request.
ChildExit(c) ==
    /\ child[c] = "running"
    /\ child' = [child EXCEPT ![c] = "exited"]
    /\ UNCHANGED <<l_args, l_pc, procs, wait_i, term_i, terminated, intr, l_exit>>
    /\ UNCHANGED <<replayVars, pureVars, orchVars>>

Started == { c \in Children : child[c] # "unstarted" }

\* KeyboardInterrupt raised between two steps of the try block:
\* except KeyboardInterrupt: pass, then the finally block.
Interrupt ==
    /\ Len(intr) < MaxInterrupts
    /\ l_pc \in TryPcs
    /\ intr' = Append(intr, [at |-> l_pc, started |-> Started])
    /\ l_pc' = "finally"
    /\ UNCHANGED <<l_args, child, procs, wait_i, term_i, terminated, l_exit>>
    /\ UNCHANGED <<replayVars, pureVars, orchVars>>

\* KeyboardInterrupt raised inside the finally block: except Exception
\* does not catch it and it leaves main.
InterruptInFinally ==
    /\ Len(intr) < MaxInterrupts
    /\ l_pc = "finally"
    /\ intr' = Append(intr, [at |-> l_pc, started |-> Started])
    /\ l_pc' = "done"
    /\ l_exit' = "KeyboardInterrupt"
    /\ UNCHANGED <<l_args, child, procs, wait_i, term_i, terminated>>
    /\ UNCHANGED <<replayVars, pureVars, orchVars>>

\* finally: for p in procs: p.terminate()
TerminateNext ==
    /\ l_pc = "finally"
    /\ term_i <= Len(procs)
    /\ terminated' = terminated \cup {procs[term_i]}
    /\ term_i' = term_i + 1
    /\ UNCHANGED <<l_args, l_pc, child, procs, wait_i, intr, l_exit>>
    /\ UNCHANGED <<replayVars, pureVars, orchVars>>

\* main returns, or the pending error leaves it.
LauncherExit ==
    /\ l_pc = "finally"
    /\ term_i > Len(procs)
    /\ l_pc' = "done"
    /\ l_exit' = IF l_exit = "running" THEN "ok" ELSE l_exit
    /\ UNCHANGED <<l_args, child, procs, wait_i, term_i, terminated, intr>>
    /\ UNCHANGED <<replayVars, pureVars, orchVars>>

\* ------------------------------------------------------ specifications
NextReplay ==
    \E spelling \in Spellings : NextPriceFirst(spelling) \/ NextPriceAgain(spelling)

\* BacktestPriceReplay after __init__; the other components are not run.
InitReplay ==
    /\ iters = <<>>
    /\ last_price = <<>>
    /\ loader_log = <<>>
    /\ ncalls = [s \in Symbols |-> 0]
    /\ first_spelling = [s \in Symbols |-> <<>>]
    /\ ret = [sym |-> <<>>, kind |-> "none", price |-> 0]
    /\ p_rows = <<>>
    /\ p_done = {}
    /\ p_hist = <<>>
    /\ p_replay = <<>>
    /\ p_metrics = calc_metrics(<<>>)
    /\ disk = [root |-> "missing"]
    /\ o_args = [coin |-> {}, per_coin_logs |-> FALSE]
    /\ o_pc = "start"
    /\ datasets = <<>>
    /\ o_idx = 1
    /\ raw_rows = <<>>
    /\ parsed_rows = <<>>
    /\ summary_rows = <<>>
    /\ artifacts = {}
    /\ report = [written |-> FALSE, rows |-> <<>>]
    /\ coin_logs = {}
    /\ o_exit = "running"
    /\ load_failed = {}
    /\ l_args = [no_thinker |-> FALSE, no_trader |-> FALSE]
    /\ l_pc = "launch_thinker"
    /\ child = [c \in Children |-> "unstarted"]
    /\ procs = <<>>
    /\ wait_i = 1
    /\ term_i = 1
    /\ terminated = {}
    /\ intr = <<>>
    /\ l_exit = "running"

SpecReplay == InitReplay /\ [][NextReplay]_vars

NextPure == ParseHistory \/ ParseReplay \/ CalcMetrics

\* Any raw rows up to MaxParseRows long, no function applied yet.
InitPure ==
    /\ iters = <<>>
    /\ last_price = <<>>
    /\ loader_log = <<>>
    /\ ncalls = [s \in Symbols |-> 0]
    /\ first_spelling = [s \in Symbols |-> <<>>]
    /\ ret = [sym |-> <<>>, kind |-> "none", price |-> 0]
    /\ p_rows \in SeqsUpTo(ParseRecords, MaxParseRows)
    /\ p_done = {}
    /\ p_hist = <<>>
    /\ p_replay = <<>>
    /\ p_metrics = calc_metrics(<<>>)
    /\ disk = [root |-> "missing"]
    /\ o_args = [coin |-> {}, per_coin_logs |-> FALSE]
    /\ o_pc = "start"
    /\ datasets = <<>>
    /\ o_idx = 1
    /\ raw_rows = <<>>
    /\ parsed_rows = <<>>
    /\ summary_rows = <<>>
    /\ artifacts = {}
    /\ report = [written |-> FALSE, rows |-> <<>>]
    /\ coin_logs = {}
    /\ o_exit = "running"
    /\ load_failed = {}
    /\ l_args = [no_thinker |-> FALSE, no_trader |-> FALSE]
    /\ l_pc = "launch_thinker"
    /\ child = [c \in Children |-> "unstarted"]
    /\ procs = <<>>
    /\ wait_i = 1
    /\ term_i = 1
    /\ terminated = {}
    /\ intr = <<>>
    /\ l_exit = "running"

SpecPure == InitPure /\ [][NextPure]_vars

NextBacktest ==
    \/ DiscoverRaises
    \/ DiscoverNothing
    \/ DiscoverSome
    \/ LoadRaises
    \/ ProcessDataset
    \/ WriteSummary

\* Any data directory and command line; BacktestPriceReplay is not used.
InitBacktest ==
    /\ iters = <<>>
    /\ last_price = <<>>
    /\ loader_log = <<>>
    /\ ncalls = [s \in Symbols |-> 0]
    /\ first_spelling = [s \in Symbols |-> <<>>]
    /\ ret = [sym |-> <<>>, kind |-> "none", price |-> 0]
    /\ p_rows = <<>>
    /\ p_done = {}
    /\ p_hist = <<>>
    /\ p_replay = <<>>
    /\ p_metrics = calc_metrics(<<>>)
    /\ disk \in Disks
    /\ o_args \in [coin : CoinFilters, per_coin_logs : BOOLEAN]
    /\ o_pc = "start"
    /\ datasets = <<>>
    /\ o_idx = 1
    /\ raw_rows = <<>>
    /\ parsed_rows = <<>>
    /\ summary_rows = <<>>
    /\ artifacts = {}
    /\ report = [written |-> FALSE, rows |-> <<>>]
    /\ coin_logs = {}
    /\ o_exit = "running"
    /\ load_failed = {}
    /\ l_args = [no_thinker |-> FALSE, no_trader |-> FALSE]
    /\ l_pc = "launch_thinker"
    /\ child = [c \in Children |-> "unstarted"]
    /\ procs = <<>>
    /\ wait_i = 1
    /\ term_i = 1
    /\ terminated = {}
    /\ intr = <<>>
    /\ l_exit = "running"

SpecBacktest == InitBacktest /\ [][NextBacktest]_vars

NextLauncher ==
    \/ \E c \in Children :
          SkipLaunch(c) \/ Spawn(c) \/ SpawnFails(c) \/ AppendProc(c) \/ ChildExit(c)
    \/ WaitNext
    \/ WaitDone
    \/ Interrupt
    \/ InterruptInFinally
    \/ TerminateNext
    \/ LauncherExit

\* Any command line; no child started yet.
InitLauncher ==
    /\ iters = <<>>
    /\ last_price = <<>>
    /\ loader_log = <<>>
    /\ ncalls = [s \in Symbols |-> 0]
    /\ first_spelling = [s \in Symbols |-> <<>>]
    /\ ret = [sym |-> <<>>, kind |-> "none", price |-> 0]
    /\ p_rows = <<>>
    /\ p_done = {}
    /\ p_hist = <<>>
    /\ p_replay = <<>>
    /\ p_metrics = calc_metrics(<<>>)
    /\ disk = [root |-> "missing"]
    /\ o_args = [coin |-> {}, per_coin_logs |-> FALSE]
    /\ o_pc = "start"
    /\ datasets = <<>>
    /\ o_idx = 1
    /\ raw_rows = <<>>
    /\ parsed_rows = <<>>
    /\ summary_rows = <<>>
    /\ artifacts = {}
    /\ report = [written |-> FALSE, rows |-> <<>>]
    /\ coin_logs = {}
    /\ o_exit = "running"
    /\ load_failed = {}
    /\ l_args \in [no_thinker : BOOLEAN, no_trader : BOOLEAN]
    /\ l_pc = "launch_thinker"
    /\ child = [c \in Children |-> "unstarted"]
    /\ procs = <<>>
    /\ wait_i = 1
    /\ term_i = 1
    /\ terminated = {}
    /\ intr = <<>>
    /\ l_exit = "running"

SpecLauncher == InitLauncher /\ [][NextLauncher]_vars

\* --------------------------------------------- claims on the orchestrator
\* C3 (ordering in the metrics pipeline): the candle sequence the 5-field
\* parser hands to the aggregator is non-decreasing in timestamp, whatever
\* order the Loader returned the raw rows in.
C3_ParsedAscending ==
    \A i, j \in 1..Len(parsed_rows) :
        i < j => parsed_rows[i][1] <= parsed_rows[j][1]

RowsFor(ds) ==
    { i \in 1..Len(report.rows) :
        report.rows[i].coin = ds.coin /\ report.rows[i].timeframe = ds.timeframe }

\* C4 (per-dataset failure containment): a Loader error for one dataset
\* does not abort the run: the run ends normally, the summary report is
\* written with a row for every dataset, and the failed dataset's row has
\* samples = 0.
C4_FailureContained ==
    (o_pc = "done" /\ load_failed # {}) =>
        /\ o_exit = "ok"
        /\ report.written
        /\ \A k \in 1..Len(datasets) : RowsFor(datasets[k]) # {}
        /\ \A ds \in load_failed :
              \A i \in RowsFor(ds) : report.rows[i].metrics.samples = 0

\* The data root is missing, or holds no timeframe directory with a coin
\* directory that passes the coin filter.
NoUsableDataset ==
    \/ disk.root = "missing"
    \/ /\ disk.root = "dir"
       /\ ~\E tf \in Range(TimeframeNames), c \in Range(CoinNames) :
             /\ disk.top[tf] = "dir"
             /\ disk.coin[tf][c] = "dir"
             /\ (o_args.coin = {} \/ c \in o_args.coin)

\* C7 (no-datasets fatal path): when the data root does not exist, is
\* empty, or yields no pair after the coin filter, main ends with the
\* "No datasets found" exit, having loaded no history and written no
\* artifact and no summary.
C7_NoDatasetsFatal ==
    (o_pc = "done" /\ NoUsableDataset) =>
        /\ o_exit = "NoDatasetsFound"
        /\ summary_rows = <<>>
        /\ load_failed = {}
        /\ artifacts = {}
        /\ ~report.written
        /\ coin_logs = {}

\* ------------------------------------------------- claims on the launcher
\* C9 (launcher cancellation): when an interrupt arrives in the try block
\* after a child was started, the launcher has called terminate() on every
\* child it started by the time it exits.
C9_InterruptTerminatesAll ==
    (l_pc = "done" /\ intr # <<>> /\ intr[1].at \in TryPcs /\ intr[1].started # {}) =>
        \A c \in Started : c \in terminated

\* ------------------------------------------------ claims on the replay
\* The reference the replay claims are stated against: the rows the
\* Loader returned for the symbol of the latest call, and the candles in
\* them, ranked by timestamp (ties by position).
Called == ret.kind # "none"
RetSymbol == SymbolOf[ret.sym]
LoaderReturned ==
    /\ Called
    /\ RetSymbol \in DOMAIN loader_log
    /\ loader_log[RetSymbol][1].ok
RetRows == loader_log[RetSymbol][1].rows

HasTsAndClose(raw) ==
    raw.lit /\ Len(raw.vals) >= 3 /\ raw.vals[1].num /\ raw.vals[3].num
CandleIdx(rows) == { i \in 1..Len(rows) : HasTsAndClose(rows[i]) }
RankOf(rows, i) ==
    1 + Cardinality({ j \in CandleIdx(rows) :
                        \/ rows[j].vals[1].v < rows[i].vals[1].v
                        \/ (rows[j].vals[1].v = rows[i].vals[1].v /\ j < i) })
KthClose(rows, k) ==
    rows[CHOOSE i \in CandleIdx(rows) : RankOf(rows, i) = k].vals[3].v
Min(a, b) == IF a <= b THEN a ELSE b

\* C1 (replay exhaustion): when the Loader rows of a symbol parse to
\* n >= 1 closes, the k-th next_price call for the symbol returns the close
\* of the k-th candle in ascending timestamp order for k <= n, and the close
\* of the last candle for every k > n.
C1_ReplayExhaustion ==
    (LoaderReturned /\ CandleIdx(RetRows) # {}) =>
        /\ ret.kind = "price"
        /\ ret.price =
             KthClose(RetRows, Min(ncalls[RetSymbol], Cardinality(CandleIdx(RetRows))))

\* C1 witness: a fourth call on a symbol whose three candles the Loader
\* returned out of timestamp order.
C1_Witness ==
    /\ LoaderReturned
    /\ Cardinality(CandleIdx(RetRows)) = 3
    /\ RetRows[1].vals[1].v > RetRows[2].vals[1].v
    /\ ncalls[RetSymbol] = 4
    /\ ret.kind = "price"

\* C2 (replay on empty data): when the Loader rows of a symbol hold no
\* parsable row, every next_price call for it returns 0.0 and leaves the
\* symbol's last price at 0.0.
C2_ReplayEmpty ==
    (LoaderReturned /\ CandleIdx(RetRows) = {}) =>
        /\ ret.kind = "price"
        /\ ret.price = 0
        /\ RetSymbol \in DOMAIN last_price
        /\ last_price[RetSymbol] = 0

\* C2 witness: a third call on a symbol whose rows are all malformed.
C2_Witness ==
    /\ LoaderReturned
    /\ Len(RetRows) >= 2
    /\ CandleIdx(RetRows) = {}
    /\ ncalls[RetSymbol] = 3
    /\ ret.kind = "price"

\* The price at position k of the one stream of a symbol: its closes
\* oldest first, then the last one again; 0.0 throughout when it has none.
StreamAt(rows, k) ==
    IF CandleIdx(rows) = {} THEN 0
    ELSE KthClose(rows, Min(k, Cardinality(CandleIdx(rows))))

\* C8 (symbol normalisation): all spellings of a symbol share one replay
\* state: the Loader is invoked once, with the upper-cased trimmed symbol,
\* and the k-th call overall, whatever its spelling, returns the k-th price
\* of that one stream.
C8_OneStatePerSymbol ==
    /\ DOMAIN iters \subseteq Symbols
    /\ DOMAIN last_price \subseteq Symbols
    /\ DOMAIN loader_log \subseteq Symbols
    /\ \A a \in DOMAIN loader_log : Len(loader_log[a]) = 1
    /\ Called => RetSymbol \in DOMAIN loader_log
    /\ LoaderReturned =>
         /\ ret.kind = "price"
         /\ ret.price = StreamAt(RetRows, ncalls[RetSymbol])

\* C8 witness: the second call for a symbol is spelled differently from
\* the first and returns the second price of a two-candle stream.
C8_Witness ==
    /\ LoaderReturned
    /\ ncalls[RetSymbol] = 2
    /\ ret.sym # first_spelling[RetSymbol]
    /\ Cardinality(CandleIdx(RetRows)) = 2
    /\ ret.kind = "price"
    /\ ret.price # StreamAt(RetRows, 1)

\* C10 (infinite stream): every next_price call returns a price or, on the
\* first call for a symbol, the Loader's error; a later call never fails
\* with the end of an already-finished iterator.
C10_InfiniteStream ==
    (Called /\ ncalls[RetSymbol] >= 2) => ret.kind = "price"

\* ------------------------------------ claims on the parsers and metrics
WinIdx(c) == { i \in 1..Len(c) : c[i][3] > c[i][2] }
HitIdx(c) == { i \in 1..Len(c) : Max(Abs(c[i][4] - c[i][2]), Abs(c[i][2] - c[i][5])) > 0 }
RECURSIVE ThresholdSum(_, _)
ThresholdSum(c, I) ==
    IF I = {} THEN 0
    ELSE LET i == CHOOSE x \in I : TRUE
         IN  Abs(c[i][3] - c[i][2]) + ThresholdSum(c, I \ {i})
\* The quotient q equals n / d.
RateIs(q, n, d) == q.d > 0 /\ q.n * d = n * q.d

\* C5 (metrics correctness): samples is the number of candles, win_rate
\* the share with close > open, hit_rate the share with
\* max(|high-open|, |open-low|) > 0, avg_threshold the mean of |close-open|;
\* the empty sequence gives samples 0 and three 0.0; so wins and hits lie
\* in 0..samples and avg_threshold is not negative.
C5_MetricsCorrect ==
    ("metrics" \in p_done) =>
        LET c == p_hist
            m == p_metrics
        IN  /\ m.samples = Len(c)
            /\ IF c = <<>>
               THEN /\ RateIs(m.win_rate, 0, 1)
                    /\ RateIs(m.hit_rate, 0, 1)
                    /\ RateIs(m.avg_threshold, 0, 1)
               ELSE /\ RateIs(m.win_rate, Cardinality(WinIdx(c)), Len(c))
                    /\ RateIs(m.hit_rate, Cardinality(HitIdx(c)), Len(c))
                    /\ RateIs(m.avg_threshold, ThresholdSum(c, 1..Len(c)), Len(c))
            /\ 0 <= m.win_rate.n /\ m.win_rate.n <= m.win_rate.d
            /\ 0 <= m.hit_rate.n /\ m.hit_rate.n <= m.hit_rate.d
            /\ 0 <= m.avg_threshold.n

\* C5 witness: the candles (t=1,o=10,c=12,h=13,l=9), (t=2,o=10,c=8,h=11,l=7)
\* and a flat one give samples 3, win_rate 1/3, hit_rate 2/3 and
\* avg_threshold 4/3.
C5_Witness ==
    /\ "metrics" \in p_done
    /\ p_hist = << <<1, 10, 12, 13, 9>>, <<2, 10, 8, 11, 7>>, <<3, 5, 5, 5, 5>> >>
    /\ p_metrics.samples = 3
    /\ p_metrics.win_rate = Div(1, 3)
    /\ p_metrics.hit_rate = Div(2, 3)
    /\ p_metrics.avg_threshold = Div(4, 3)

\* The rows each parser can decode: the 5-field parser needs fields 0..4
\* numeric, the replay parser fields 0 and 2.
HasFiveFields(raw) ==
    raw.lit /\ Len(raw.vals) >= 5 /\ \A i \in 1..5 : raw.vals[i].num
HistoryIdx(rows) == { i \in 1..Len(rows) : HasFiveFields(rows[i]) }
\* The k-th smallest member of a set of indices.
KthIdx(I, k) == CHOOSE i \in I : Cardinality({ j \in I : j < i }) = k - 1
Count(seq, x) == Cardinality({ i \in 1..Len(seq) : seq[i] = x })

\* C6 (decode-or-drop): each parser returns one candle per record it can
\* decode and nothing for the others: the 5-field parser the decodable
\* records' fields in input order, the replay parser the (timestamp, close)
\* pairs of the decodable records, each as often as it occurs.
C6_DecodeOrDrop ==
    /\ ("history" \in p_done) =>
          /\ Len(p_hist) = Cardinality(HistoryIdx(p_rows))
          /\ \A k \in 1..Len(p_hist) :
                LET raw == p_rows[KthIdx(HistoryIdx(p_rows), k)]
                IN  p_hist[k] = [f \in 1..5 |-> raw.vals[f].v]
    /\ ("replay" \in p_done) =>
          /\ Len(p_replay) = Cardinality(CandleIdx(p_rows))
          /\ \A i \in CandleIdx(p_rows) :
                LET pair == <<p_rows[i].vals[1].v, p_rows[i].vals[3].v>>
                IN  Count(p_replay, pair) =
                      Cardinality({ j \in CandleIdx(p_rows) :
                          <<p_rows[j].vals[1].v, p_rows[j].vals[3].v>> = pair })

\* C6 witness: three well-formed and two undecodable records, the first
\* record undecodable, parse to three candles with both parsers.
C6_Witness ==
    /\ p_done = {"history", "replay"}
    /\ Len(p_rows) = 5
    /\ ~p_rows[1].lit
    /\ Cardinality(CandleIdx(p_rows)) = 3
    /\ Len(p_hist) = 3
    /\ Len(p_replay) = 3

====
